---- MODULE Spec2Model ----
(***************************************************************************)
(* A model of web_novel_scraper.py: the text cleaner (clean_text), the     *)
(* content selector detector (detect_content_selector), the single-page    *)
(* scraper (scrape_text), the batch orchestrator (batch_scrape) and the     *)
(* URL loading of main.                                                    *)
(*                                                                         *)
(* Text is a sequence of Unicode code points.  The browser driver and the  *)
(* markup parser are external: a call into them is a nondeterministic      *)
(* choice among the outcomes the call can have (a value, or an exception). *)
(***************************************************************************)
EXTENDS Integers, Sequences, FiniteSets, TLC

VARIABLES
    pc,           \* where the program is: main, batch_scrape's loop, a step of scrape_text
    source,       \* main's input: "url" (--url), "file" (--url-file loads), "badfile" (load raises)
    urls,         \* the URL list handed to batch_scrape
    cli_selector, \* args.selector: None, or the caller's selector (which can be "")
    append,       \* args.append
    file,         \* the content of the output file
    selector,     \* batch_scrape's local selector
    i,            \* batch_scrape's loop index (1-based, enumerate(urls, 1))
    all_content,  \* batch_scrape's list of results
    sel,          \* scrape_text's local selector (its parameter, reassigned by detection)
    content_html, \* scrape_text's content_html
    ret,          \* the value scrape_text is about to return
    sessions,     \* one entry per driver setup_driver returned: "open", or "quit" once driver.quit() was called
    calls,        \* history: one record per scrape_text call, in call order
    written,      \* the combined_text batch_scrape wrote (empty before)
    report,       \* the summary batch_scrape prints (None before)
    cl_in,        \* clean_text run on its own: the parsed fragment
    cl_out,       \* clean_text run on its own: the returned text (None before)
    dt_in,        \* detect_content_selector run on its own: the page
    dt_out        \* detect_content_selector run on its own: the returned selector (None before)

vars == <<pc, source, urls, cli_selector, append, file, selector, i, all_content,
          sel, content_html, ret, sessions, calls, written, report,
          cl_in, cl_out, dt_in, dt_out>>

batch_vars == <<source, urls, cli_selector, append, file, selector, i, all_content,
                sel, content_html, ret, sessions, calls, written, report>>

\* Python's None: an absent selector, a value not yet computed.
None == "None"

(***************************************************************************)
(* Characters and strings                                                  *)
(*                                                                         *)
(* A character is its Unicode code point and a string a sequence of them.  *)
(* str.lower(), str.strip() and the regex classes \w and \s are the ones   *)
(* of Python 3 on str: Unicode-aware, by the tables below.                 *)
(***************************************************************************)

\* The code points str.strip() strips and the regex class \s matches, as ranges
\* <<first, last>>.
SpaceRanges == {
    <<9,13>>, <<28,32>>, <<133,133>>, <<160,160>>, <<5760,5760>>, <<8192,8202>>, <<8232,8233>>,
    <<8239,8239>>, <<8287,8287>>, <<12288,12288>> }

\* The code points from 128 on that the regex class \w matches (str.isalnum), as
\* ranges <<first, last>>, by the Unicode tables of Python 3.11 (Unicode 14).
WordRanges == {
    <<170,170>>, <<178,179>>, <<181,181>>, <<185,186>>, <<188,190>>, <<192,214>>, <<216,246>>,
    <<248,705>>, <<710,721>>, <<736,740>>, <<748,748>>, <<750,750>>, <<880,884>>, <<886,887>>,
    <<890,893>>, <<895,895>>, <<902,902>>, <<904,906>>, <<908,908>>, <<910,929>>, <<931,1013>>,
    <<1015,1153>>, <<1162,1327>>, <<1329,1366>>, <<1369,1369>>, <<1376,1416>>, <<1488,1514>>,
    <<1519,1522>>, <<1568,1610>>, <<1632,1641>>, <<1646,1647>>, <<1649,1747>>, <<1749,1749>>,
    <<1765,1766>>, <<1774,1788>>, <<1791,1791>>, <<1808,1808>>, <<1810,1839>>, <<1869,1957>>,
    <<1969,1969>>, <<1984,2026>>, <<2036,2037>>, <<2042,2042>>, <<2048,2069>>, <<2074,2074>>,
    <<2084,2084>>, <<2088,2088>>, <<2112,2136>>, <<2144,2154>>, <<2160,2183>>, <<2185,2190>>,
    <<2208,2249>>, <<2308,2361>>, <<2365,2365>>, <<2384,2384>>, <<2392,2401>>, <<2406,2415>>,
    <<2417,2432>>, <<2437,2444>>, <<2447,2448>>, <<2451,2472>>, <<2474,2480>>, <<2482,2482>>,
    <<2486,2489>>, <<2493,2493>>, <<2510,2510>>, <<2524,2525>>, <<2527,2529>>, <<2534,2545>>,
    <<2548,2553>>, <<2556,2556>>, <<2565,2570>>, <<2575,2576>>, <<2579,2600>>, <<2602,2608>>,
    <<2610,2611>>, <<2613,2614>>, <<2616,2617>>, <<2649,2652>>, <<2654,2654>>, <<2662,2671>>,
    <<2674,2676>>, <<2693,2701>>, <<2703,2705>>, <<2707,2728>>, <<2730,2736>>, <<2738,2739>>,
    <<2741,2745>>, <<2749,2749>>, <<2768,2768>>, <<2784,2785>>, <<2790,2799>>, <<2809,2809>>,
    <<2821,2828>>, <<2831,2832>>, <<2835,2856>>, <<2858,2864>>, <<2866,2867>>, <<2869,2873>>,
    <<2877,2877>>, <<2908,2909>>, <<2911,2913>>, <<2918,2927>>, <<2929,2935>>, <<2947,2947>>,
    <<2949,2954>>, <<2958,2960>>, <<2962,2965>>, <<2969,2970>>, <<2972,2972>>, <<2974,2975>>,
    <<2979,2980>>, <<2984,2986>>, <<2990,3001>>, <<3024,3024>>, <<3046,3058>>, <<3077,3084>>,
    <<3086,3088>>, <<3090,3112>>, <<3114,3129>>, <<3133,3133>>, <<3160,3162>>, <<3165,3165>>,
    <<3168,3169>>, <<3174,3183>>, <<3192,3198>>, <<3200,3200>>, <<3205,3212>>, <<3214,3216>>,
    <<3218,3240>>, <<3242,3251>>, <<3253,3257>>, <<3261,3261>>, <<3293,3294>>, <<3296,3297>>,
    <<3302,3311>>, <<3313,3314>>, <<3332,3340>>, <<3342,3344>>, <<3346,3386>>, <<3389,3389>>,
    <<3406,3406>>, <<3412,3414>>, <<3416,3425>>, <<3430,3448>>, <<3450,3455>>, <<3461,3478>>,
    <<3482,3505>>, <<3507,3515>>, <<3517,3517>>, <<3520,3526>>, <<3558,3567>>, <<3585,3632>>,
    <<3634,3635>>, <<3648,3654>>, <<3664,3673>>, <<3713,3714>>, <<3716,3716>>, <<3718,3722>>,
    <<3724,3747>>, <<3749,3749>>, <<3751,3760>>, <<3762,3763>>, <<3773,3773>>, <<3776,3780>>,
    <<3782,3782>>, <<3792,3801>>, <<3804,3807>>, <<3840,3840>>, <<3872,3891>>, <<3904,3911>>,
    <<3913,3948>>, <<3976,3980>>, <<4096,4138>>, <<4159,4169>>, <<4176,4181>>, <<4186,4189>>,
    <<4193,4193>>, <<4197,4198>>, <<4206,4208>>, <<4213,4225>>, <<4238,4238>>, <<4240,4249>>,
    <<4256,4293>>, <<4295,4295>>, <<4301,4301>>, <<4304,4346>>, <<4348,4680>>, <<4682,4685>>,
    <<4688,4694>>, <<4696,4696>>, <<4698,4701>>, <<4704,4744>>, <<4746,4749>>, <<4752,4784>>,
    <<4786,4789>>, <<4792,4798>>, <<4800,4800>>, <<4802,4805>>, <<4808,4822>>, <<4824,4880>>,
    <<4882,4885>>, <<4888,4954>>, <<4969,4988>>, <<4992,5007>>, <<5024,5109>>, <<5112,5117>>,
    <<5121,5740>>, <<5743,5759>>, <<5761,5786>>, <<5792,5866>>, <<5870,5880>>, <<5888,5905>>,
    <<5919,5937>>, <<5952,5969>>, <<5984,5996>>, <<5998,6000>>, <<6016,6067>>, <<6103,6103>>,
    <<6108,6108>>, <<6112,6121>>, <<6128,6137>>, <<6160,6169>>, <<6176,6264>>, <<6272,6276>>,
    <<6279,6312>>, <<6314,6314>>, <<6320,6389>>, <<6400,6430>>, <<6470,6509>>, <<6512,6516>>,
    <<6528,6571>>, <<6576,6601>>, <<6608,6618>>, <<6656,6678>>, <<6688,6740>>, <<6784,6793>>,
    <<6800,6809>>, <<6823,6823>>, <<6917,6963>>, <<6981,6988>>, <<6992,7001>>, <<7043,7072>>,
    <<7086,7141>>, <<7168,7203>>, <<7232,7241>>, <<7245,7293>>, <<7296,7304>>, <<7312,7354>>,
    <<7357,7359>>, <<7401,7404>>, <<7406,7411>>, <<7413,7414>>, <<7418,7418>>, <<7424,7615>>,
    <<7680,7957>>, <<7960,7965>>, <<7968,8005>>, <<8008,8013>>, <<8016,8023>>, <<8025,8025>>,
    <<8027,8027>>, <<8029,8029>>, <<8031,8061>>, <<8064,8116>>, <<8118,8124>>, <<8126,8126>>,
    <<8130,8132>>, <<8134,8140>>, <<8144,8147>>, <<8150,8155>>, <<8160,8172>>, <<8178,8180>>,
    <<8182,8188>>, <<8304,8305>>, <<8308,8313>>, <<8319,8329>>, <<8336,8348>>, <<8450,8450>>,
    <<8455,8455>>, <<8458,8467>>, <<8469,8469>>, <<8473,8477>>, <<8484,8484>>, <<8486,8486>>,
    <<8488,8488>>, <<8490,8493>>, <<8495,8505>>, <<8508,8511>>, <<8517,8521>>, <<8526,8526>>,
    <<8528,8585>>, <<9312,9371>>, <<9450,9471>>, <<10102,10131>>, <<11264,11492>>,
    <<11499,11502>>, <<11506,11507>>, <<11517,11517>>, <<11520,11557>>, <<11559,11559>>,
    <<11565,11565>>, <<11568,11623>>, <<11631,11631>>, <<11648,11670>>, <<11680,11686>>,
    <<11688,11694>>, <<11696,11702>>, <<11704,11710>>, <<11712,11718>>, <<11720,11726>>,
    <<11728,11734>>, <<11736,11742>>, <<11823,11823>>, <<12293,12295>>, <<12321,12329>>,
    <<12337,12341>>, <<12344,12348>>, <<12353,12438>>, <<12445,12447>>, <<12449,12538>>,
    <<12540,12543>>, <<12549,12591>>, <<12593,12686>>, <<12690,12693>>, <<12704,12735>>,
    <<12784,12799>>, <<12832,12841>>, <<12872,12879>>, <<12881,12895>>, <<12928,12937>>,
    <<12977,12991>>, <<13312,19903>>, <<19968,42124>>, <<42192,42237>>, <<42240,42508>>,
    <<42512,42539>>, <<42560,42606>>, <<42623,42653>>, <<42656,42735>>, <<42775,42783>>,
    <<42786,42888>>, <<42891,42954>>, <<42960,42961>>, <<42963,42963>>, <<42965,42969>>,
    <<42994,43009>>, <<43011,43013>>, <<43015,43018>>, <<43020,43042>>, <<43056,43061>>,
    <<43072,43123>>, <<43138,43187>>, <<43216,43225>>, <<43250,43255>>, <<43259,43259>>,
    <<43261,43262>>, <<43264,43301>>, <<43312,43334>>, <<43360,43388>>, <<43396,43442>>,
    <<43471,43481>>, <<43488,43492>>, <<43494,43518>>, <<43520,43560>>, <<43584,43586>>,
    <<43588,43595>>, <<43600,43609>>, <<43616,43638>>, <<43642,43642>>, <<43646,43695>>,
    <<43697,43697>>, <<43701,43702>>, <<43705,43709>>, <<43712,43712>>, <<43714,43714>>,
    <<43739,43741>>, <<43744,43754>>, <<43762,43764>>, <<43777,43782>>, <<43785,43790>>,
    <<43793,43798>>, <<43808,43814>>, <<43816,43822>>, <<43824,43866>>, <<43868,43881>>,
    <<43888,44002>>, <<44016,44025>>, <<44032,55203>>, <<55216,55238>>, <<55243,55291>>,
    <<63744,64109>>, <<64112,64217>>, <<64256,64262>>, <<64275,64279>>, <<64285,64285>>,
    <<64287,64296>>, <<64298,64310>>, <<64312,64316>>, <<64318,64318>>, <<64320,64321>>,
    <<64323,64324>>, <<64326,64433>>, <<64467,64829>>, <<64848,64911>>, <<64914,64967>>,
    <<65008,65019>>, <<65136,65140>>, <<65142,65276>>, <<65296,65305>>, <<65313,65338>>,
    <<65345,65370>>, <<65382,65470>>, <<65474,65479>>, <<65482,65487>>, <<65490,65495>>,
    <<65498,65500>>, <<65536,65547>>, <<65549,65574>>, <<65576,65594>>, <<65596,65597>>,
    <<65599,65613>>, <<65616,65629>>, <<65664,65786>>, <<65799,65843>>, <<65856,65912>>,
    <<65930,65931>>, <<66176,66204>>, <<66208,66256>>, <<66273,66299>>, <<66304,66339>>,
    <<66349,66378>>, <<66384,66421>>, <<66432,66461>>, <<66464,66499>>, <<66504,66511>>,
    <<66513,66517>>, <<66560,66717>>, <<66720,66729>>, <<66736,66771>>, <<66776,66811>>,
    <<66816,66855>>, <<66864,66915>>, <<66928,66938>>, <<66940,66954>>, <<66956,66962>>,
    <<66964,66965>>, <<66967,66977>>, <<66979,66993>>, <<66995,67001>>, <<67003,67004>>,
    <<67072,67382>>, <<67392,67413>>, <<67424,67431>>, <<67456,67461>>, <<67463,67504>>,
    <<67506,67514>>, <<67584,67589>>, <<67592,67592>>, <<67594,67637>>, <<67639,67640>>,
    <<67644,67644>>, <<67647,67669>>, <<67672,67702>>, <<67705,67742>>, <<67751,67759>>,
    <<67808,67826>>, <<67828,67829>>, <<67835,67867>>, <<67872,67897>>, <<67968,68023>>,
    <<68028,68047>>, <<68050,68096>>, <<68112,68115>>, <<68117,68119>>, <<68121,68149>>,
    <<68160,68168>>, <<68192,68222>>, <<68224,68255>>, <<68288,68295>>, <<68297,68324>>,
    <<68331,68335>>, <<68352,68405>>, <<68416,68437>>, <<68440,68466>>, <<68472,68497>>,
    <<68521,68527>>, <<68608,68680>>, <<68736,68786>>, <<68800,68850>>, <<68858,68899>>,
    <<68912,68921>>, <<69216,69246>>, <<69248,69289>>, <<69296,69297>>, <<69376,69415>>,
    <<69424,69445>>, <<69457,69460>>, <<69488,69505>>, <<69552,69579>>, <<69600,69622>>,
    <<69635,69687>>, <<69714,69743>>, <<69745,69746>>, <<69749,69749>>, <<69763,69807>>,
    <<69840,69864>>, <<69872,69881>>, <<69891,69926>>, <<69942,69951>>, <<69956,69956>>,
    <<69959,69959>>, <<69968,70002>>, <<70006,70006>>, <<70019,70066>>, <<70081,70084>>,
    <<70096,70106>>, <<70108,70108>>, <<70113,70132>>, <<70144,70161>>, <<70163,70187>>,
    <<70272,70278>>, <<70280,70280>>, <<70282,70285>>, <<70287,70301>>, <<70303,70312>>,
    <<70320,70366>>, <<70384,70393>>, <<70405,70412>>, <<70415,70416>>, <<70419,70440>>,
    <<70442,70448>>, <<70450,70451>>, <<70453,70457>>, <<70461,70461>>, <<70480,70480>>,
    <<70493,70497>>, <<70656,70708>>, <<70727,70730>>, <<70736,70745>>, <<70751,70753>>,
    <<70784,70831>>, <<70852,70853>>, <<70855,70855>>, <<70864,70873>>, <<71040,71086>>,
    <<71128,71131>>, <<71168,71215>>, <<71236,71236>>, <<71248,71257>>, <<71296,71338>>,
    <<71352,71352>>, <<71360,71369>>, <<71424,71450>>, <<71472,71483>>, <<71488,71494>>,
    <<71680,71723>>, <<71840,71922>>, <<71935,71942>>, <<71945,71945>>, <<71948,71955>>,
    <<71957,71958>>, <<71960,71983>>, <<71999,71999>>, <<72001,72001>>, <<72016,72025>>,
    <<72096,72103>>, <<72106,72144>>, <<72161,72161>>, <<72163,72163>>, <<72192,72192>>,
    <<72203,72242>>, <<72250,72250>>, <<72272,72272>>, <<72284,72329>>, <<72349,72349>>,
    <<72368,72440>>, <<72704,72712>>, <<72714,72750>>, <<72768,72768>>, <<72784,72812>>,
    <<72818,72847>>, <<72960,72966>>, <<72968,72969>>, <<72971,73008>>, <<73030,73030>>,
    <<73040,73049>>, <<73056,73061>>, <<73063,73064>>, <<73066,73097>>, <<73112,73112>>,
    <<73120,73129>>, <<73440,73458>>, <<73648,73648>>, <<73664,73684>>, <<73728,74649>>,
    <<74752,74862>>, <<74880,75075>>, <<77712,77808>>, <<77824,78894>>, <<82944,83526>>,
    <<92160,92728>>, <<92736,92766>>, <<92768,92777>>, <<92784,92862>>, <<92864,92873>>,
    <<92880,92909>>, <<92928,92975>>, <<92992,92995>>, <<93008,93017>>, <<93019,93025>>,
    <<93027,93047>>, <<93053,93071>>, <<93760,93846>>, <<93952,94026>>, <<94032,94032>>,
    <<94099,94111>>, <<94176,94177>>, <<94179,94179>>, <<94208,100343>>, <<100352,101589>>,
    <<101632,101640>>, <<110576,110579>>, <<110581,110587>>, <<110589,110590>>, <<110592,110882>>,
    <<110928,110930>>, <<110948,110951>>, <<110960,111355>>, <<113664,113770>>, <<113776,113788>>,
    <<113792,113800>>, <<113808,113817>>, <<119520,119539>>, <<119648,119672>>, <<119808,119892>>,
    <<119894,119964>>, <<119966,119967>>, <<119970,119970>>, <<119973,119974>>, <<119977,119980>>,
    <<119982,119993>>, <<119995,119995>>, <<119997,120003>>, <<120005,120069>>, <<120071,120074>>,
    <<120077,120084>>, <<120086,120092>>, <<120094,120121>>, <<120123,120126>>, <<120128,120132>>,
    <<120134,120134>>, <<120138,120144>>, <<120146,120485>>, <<120488,120512>>, <<120514,120538>>,
    <<120540,120570>>, <<120572,120596>>, <<120598,120628>>, <<120630,120654>>, <<120656,120686>>,
    <<120688,120712>>, <<120714,120744>>, <<120746,120770>>, <<120772,120779>>, <<120782,120831>>,
    <<122624,122654>>, <<123136,123180>>, <<123191,123197>>, <<123200,123209>>, <<123214,123214>>,
    <<123536,123565>>, <<123584,123627>>, <<123632,123641>>, <<124896,124902>>, <<124904,124907>>,
    <<124909,124910>>, <<124912,124926>>, <<124928,125124>>, <<125127,125135>>, <<125184,125251>>,
    <<125259,125259>>, <<125264,125273>>, <<126065,126123>>, <<126125,126127>>, <<126129,126132>>,
    <<126209,126253>>, <<126255,126269>>, <<126464,126467>>, <<126469,126495>>, <<126497,126498>>,
    <<126500,126500>>, <<126503,126503>>, <<126505,126514>>, <<126516,126519>>, <<126521,126521>>,
    <<126523,126523>>, <<126530,126530>>, <<126535,126535>>, <<126537,126537>>, <<126539,126539>>,
    <<126541,126543>>, <<126545,126546>>, <<126548,126548>>, <<126551,126551>>, <<126553,126553>>,
    <<126555,126555>>, <<126557,126557>>, <<126559,126559>>, <<126561,126562>>, <<126564,126564>>,
    <<126567,126570>>, <<126572,126578>>, <<126580,126583>>, <<126585,126588>>, <<126590,126590>>,
    <<126592,126601>>, <<126603,126619>>, <<126625,126627>>, <<126629,126633>>, <<126635,126651>>,
    <<127232,127244>>, <<130032,130041>>, <<131072,173791>>, <<173824,177976>>, <<177984,178205>>,
    <<178208,183969>>, <<183984,191456>>, <<194560,195101>>, <<196608,201546>> }

\* str.lower() from 128 on: <<first, last, step, delta>> says that the code points
\* first, first + step, ..., last lower to themselves plus delta.
LowerRuns == {
    <<192,214,1,32>>, <<216,222,1,32>>, <<256,302,2,1>>, <<306,310,2,1>>, <<313,327,2,1>>,
    <<330,374,2,1>>, <<376,376,1,-121>>, <<377,381,2,1>>, <<385,385,1,210>>, <<386,388,2,1>>,
    <<390,390,1,206>>, <<391,391,1,1>>, <<393,394,1,205>>, <<395,395,1,1>>, <<398,398,1,79>>,
    <<399,399,1,202>>, <<400,400,1,203>>, <<401,401,1,1>>, <<403,403,1,205>>, <<404,404,1,207>>,
    <<406,406,1,211>>, <<407,407,1,209>>, <<408,408,1,1>>, <<412,412,1,211>>, <<413,413,1,213>>,
    <<415,415,1,214>>, <<416,420,2,1>>, <<422,422,1,218>>, <<423,423,1,1>>, <<425,425,1,218>>,
    <<428,428,1,1>>, <<430,430,1,218>>, <<431,431,1,1>>, <<433,434,1,217>>, <<435,437,2,1>>,
    <<439,439,1,219>>, <<440,440,1,1>>, <<444,444,1,1>>, <<452,452,1,2>>, <<453,453,1,1>>,
    <<455,455,1,2>>, <<456,456,1,1>>, <<458,458,1,2>>, <<459,475,2,1>>, <<478,494,2,1>>,
    <<497,497,1,2>>, <<498,500,2,1>>, <<502,502,1,-97>>, <<503,503,1,-56>>, <<504,542,2,1>>,
    <<544,544,1,-130>>, <<546,562,2,1>>, <<570,570,1,10795>>, <<571,571,1,1>>, <<573,573,1,-163>>,
    <<574,574,1,10792>>, <<577,577,1,1>>, <<579,579,1,-195>>, <<580,580,1,69>>, <<581,581,1,71>>,
    <<582,590,2,1>>, <<880,882,2,1>>, <<886,886,1,1>>, <<895,895,1,116>>, <<902,902,1,38>>,
    <<904,906,1,37>>, <<908,908,1,64>>, <<910,911,1,63>>, <<913,929,1,32>>, <<931,939,1,32>>,
    <<975,975,1,8>>, <<984,1006,2,1>>, <<1012,1012,1,-60>>, <<1015,1015,1,1>>, <<1017,1017,1,-7>>,
    <<1018,1018,1,1>>, <<1021,1023,1,-130>>, <<1024,1039,1,80>>, <<1040,1071,1,32>>,
    <<1120,1152,2,1>>, <<1162,1214,2,1>>, <<1216,1216,1,15>>, <<1217,1229,2,1>>,
    <<1232,1326,2,1>>, <<1329,1366,1,48>>, <<4256,4293,1,7264>>, <<4295,4295,1,7264>>,
    <<4301,4301,1,7264>>, <<5024,5103,1,38864>>, <<5104,5109,1,8>>, <<7312,7354,1,-3008>>,
    <<7357,7359,1,-3008>>, <<7680,7828,2,1>>, <<7838,7838,1,-7615>>, <<7840,7934,2,1>>,
    <<7944,7951,1,-8>>, <<7960,7965,1,-8>>, <<7976,7983,1,-8>>, <<7992,7999,1,-8>>,
    <<8008,8013,1,-8>>, <<8025,8031,2,-8>>, <<8040,8047,1,-8>>, <<8072,8079,1,-8>>,
    <<8088,8095,1,-8>>, <<8104,8111,1,-8>>, <<8120,8121,1,-8>>, <<8122,8123,1,-74>>,
    <<8124,8124,1,-9>>, <<8136,8139,1,-86>>, <<8140,8140,1,-9>>, <<8152,8153,1,-8>>,
    <<8154,8155,1,-100>>, <<8168,8169,1,-8>>, <<8170,8171,1,-112>>, <<8172,8172,1,-7>>,
    <<8184,8185,1,-128>>, <<8186,8187,1,-126>>, <<8188,8188,1,-9>>, <<8486,8486,1,-7517>>,
    <<8490,8490,1,-8383>>, <<8491,8491,1,-8262>>, <<8498,8498,1,28>>, <<8544,8559,1,16>>,
    <<8579,8579,1,1>>, <<9398,9423,1,26>>, <<11264,11311,1,48>>, <<11360,11360,1,1>>,
    <<11362,11362,1,-10743>>, <<11363,11363,1,-3814>>, <<11364,11364,1,-10727>>,
    <<11367,11371,2,1>>, <<11373,11373,1,-10780>>, <<11374,11374,1,-10749>>,
    <<11375,11375,1,-10783>>, <<11376,11376,1,-10782>>, <<11378,11378,1,1>>, <<11381,11381,1,1>>,
    <<11390,11391,1,-10815>>, <<11392,11490,2,1>>, <<11499,11501,2,1>>, <<11506,11506,1,1>>,
    <<42560,42604,2,1>>, <<42624,42650,2,1>>, <<42786,42798,2,1>>, <<42802,42862,2,1>>,
    <<42873,42875,2,1>>, <<42877,42877,1,-35332>>, <<42878,42886,2,1>>, <<42891,42891,1,1>>,
    <<42893,42893,1,-42280>>, <<42896,42898,2,1>>, <<42902,42920,2,1>>, <<42922,42922,1,-42308>>,
    <<42923,42923,1,-42319>>, <<42924,42924,1,-42315>>, <<42925,42925,1,-42305>>,
    <<42926,42926,1,-42308>>, <<42928,42928,1,-42258>>, <<42929,42929,1,-42282>>,
    <<42930,42930,1,-42261>>, <<42931,42931,1,928>>, <<42932,42946,2,1>>, <<42948,42948,1,-48>>,
    <<42949,42949,1,-42307>>, <<42950,42950,1,-35384>>, <<42951,42953,2,1>>, <<42960,42960,1,1>>,
    <<42966,42968,2,1>>, <<42997,42997,1,1>>, <<65313,65338,1,32>>, <<66560,66599,1,40>>,
    <<66736,66771,1,40>>, <<66928,66964,2,39>>, <<66929,66937,2,39>>, <<66941,66953,2,39>>,
    <<66957,66961,2,39>>, <<66965,66965,1,39>>, <<68736,68786,1,64>>, <<71840,71871,1,32>>,
    <<93760,93791,1,32>>, <<125184,125217,1,34>> }

\* The case-ignorable code points (skipped around a capital sigma).
CaseIgnorable == {
    <<39,39>>, <<46,46>>, <<58,58>>, <<94,94>>, <<96,96>>, <<168,168>>, <<173,173>>, <<175,175>>,
    <<180,180>>, <<183,184>>, <<688,879>>, <<884,885>>, <<890,890>>, <<900,901>>, <<903,903>>,
    <<1155,1161>>, <<1369,1369>>, <<1375,1375>>, <<1425,1469>>, <<1471,1471>>, <<1473,1474>>,
    <<1476,1477>>, <<1479,1479>>, <<1524,1524>>, <<1536,1541>>, <<1552,1562>>, <<1564,1564>>,
    <<1600,1600>>, <<1611,1631>>, <<1648,1648>>, <<1750,1757>>, <<1759,1768>>, <<1770,1773>>,
    <<1807,1807>>, <<1809,1809>>, <<1840,1866>>, <<1958,1968>>, <<2027,2037>>, <<2042,2042>>,
    <<2045,2045>>, <<2070,2093>>, <<2137,2139>>, <<2184,2184>>, <<2192,2193>>, <<2200,2207>>,
    <<2249,2306>>, <<2362,2362>>, <<2364,2364>>, <<2369,2376>>, <<2381,2381>>, <<2385,2391>>,
    <<2402,2403>>, <<2417,2417>>, <<2433,2433>>, <<2492,2492>>, <<2497,2500>>, <<2509,2509>>,
    <<2530,2531>>, <<2558,2558>>, <<2561,2562>>, <<2620,2620>>, <<2625,2626>>, <<2631,2632>>,
    <<2635,2637>>, <<2641,2641>>, <<2672,2673>>, <<2677,2677>>, <<2689,2690>>, <<2748,2748>>,
    <<2753,2757>>, <<2759,2760>>, <<2765,2765>>, <<2786,2787>>, <<2810,2815>>, <<2817,2817>>,
    <<2876,2876>>, <<2879,2879>>, <<2881,2884>>, <<2893,2893>>, <<2901,2902>>, <<2914,2915>>,
    <<2946,2946>>, <<3008,3008>>, <<3021,3021>>, <<3072,3072>>, <<3076,3076>>, <<3132,3132>>,
    <<3134,3136>>, <<3142,3144>>, <<3146,3149>>, <<3157,3158>>, <<3170,3171>>, <<3201,3201>>,
    <<3260,3260>>, <<3263,3263>>, <<3270,3270>>, <<3276,3277>>, <<3298,3299>>, <<3328,3329>>,
    <<3387,3388>>, <<3393,3396>>, <<3405,3405>>, <<3426,3427>>, <<3457,3457>>, <<3530,3530>>,
    <<3538,3540>>, <<3542,3542>>, <<3633,3633>>, <<3636,3642>>, <<3654,3662>>, <<3761,3761>>,
    <<3764,3772>>, <<3782,3782>>, <<3784,3789>>, <<3864,3865>>, <<3893,3893>>, <<3895,3895>>,
    <<3897,3897>>, <<3953,3966>>, <<3968,3972>>, <<3974,3975>>, <<3981,3991>>, <<3993,4028>>,
    <<4038,4038>>, <<4141,4144>>, <<4146,4151>>, <<4153,4154>>, <<4157,4158>>, <<4184,4185>>,
    <<4190,4192>>, <<4209,4212>>, <<4226,4226>>, <<4229,4230>>, <<4237,4237>>, <<4253,4253>>,
    <<4348,4348>>, <<4957,4959>>, <<5906,5908>>, <<5938,5939>>, <<5970,5971>>, <<6002,6003>>,
    <<6068,6069>>, <<6071,6077>>, <<6086,6086>>, <<6089,6099>>, <<6103,6103>>, <<6109,6109>>,
    <<6155,6159>>, <<6211,6211>>, <<6277,6278>>, <<6313,6313>>, <<6432,6434>>, <<6439,6440>>,
    <<6450,6450>>, <<6457,6459>>, <<6679,6680>>, <<6683,6683>>, <<6742,6742>>, <<6744,6750>>,
    <<6752,6752>>, <<6754,6754>>, <<6757,6764>>, <<6771,6780>>, <<6783,6783>>, <<6823,6823>>,
    <<6832,6862>>, <<6912,6915>>, <<6964,6964>>, <<6966,6970>>, <<6972,6972>>, <<6978,6978>>,
    <<7019,7027>>, <<7040,7041>>, <<7074,7077>>, <<7080,7081>>, <<7083,7085>>, <<7142,7142>>,
    <<7144,7145>>, <<7149,7149>>, <<7151,7153>>, <<7212,7219>>, <<7222,7223>>, <<7288,7293>>,
    <<7376,7378>>, <<7380,7392>>, <<7394,7400>>, <<7405,7405>>, <<7412,7412>>, <<7416,7417>>,
    <<7468,7530>>, <<7544,7544>>, <<7579,7679>>, <<8125,8125>>, <<8127,8129>>, <<8141,8143>>,
    <<8157,8159>>, <<8173,8175>>, <<8189,8190>>, <<8203,8207>>, <<8216,8217>>, <<8228,8228>>,
    <<8231,8231>>, <<8234,8238>>, <<8288,8292>>, <<8294,8303>>, <<8305,8305>>, <<8319,8319>>,
    <<8336,8348>>, <<8400,8432>>, <<11388,11389>>, <<11503,11505>>, <<11631,11631>>,
    <<11647,11647>>, <<11744,11775>>, <<11823,11823>>, <<12293,12293>>, <<12330,12333>>,
    <<12337,12341>>, <<12347,12347>>, <<12441,12446>>, <<12540,12542>>, <<40981,40981>>,
    <<42232,42237>>, <<42508,42508>>, <<42607,42610>>, <<42612,42621>>, <<42623,42623>>,
    <<42652,42655>>, <<42736,42737>>, <<42752,42785>>, <<42864,42864>>, <<42888,42890>>,
    <<42994,42996>>, <<43000,43001>>, <<43010,43010>>, <<43014,43014>>, <<43019,43019>>,
    <<43045,43046>>, <<43052,43052>>, <<43204,43205>>, <<43232,43249>>, <<43263,43263>>,
    <<43302,43309>>, <<43335,43345>>, <<43392,43394>>, <<43443,43443>>, <<43446,43449>>,
    <<43452,43453>>, <<43471,43471>>, <<43493,43494>>, <<43561,43566>>, <<43569,43570>>,
    <<43573,43574>>, <<43587,43587>>, <<43596,43596>>, <<43632,43632>>, <<43644,43644>>,
    <<43696,43696>>, <<43698,43700>>, <<43703,43704>>, <<43710,43711>>, <<43713,43713>>,
    <<43741,43741>>, <<43756,43757>>, <<43763,43764>>, <<43766,43766>>, <<43867,43871>>,
    <<43881,43883>>, <<44005,44005>>, <<44008,44008>>, <<44013,44013>>, <<64286,64286>>,
    <<64434,64450>>, <<65024,65039>>, <<65043,65043>>, <<65056,65071>>, <<65106,65106>>,
    <<65109,65109>>, <<65279,65279>>, <<65287,65287>>, <<65294,65294>>, <<65306,65306>>,
    <<65342,65342>>, <<65344,65344>>, <<65392,65392>>, <<65438,65439>>, <<65507,65507>>,
    <<65529,65531>>, <<66045,66045>>, <<66272,66272>>, <<66422,66426>>, <<67456,67461>>,
    <<67463,67504>>, <<67506,67514>>, <<68097,68099>>, <<68101,68102>>, <<68108,68111>>,
    <<68152,68154>>, <<68159,68159>>, <<68325,68326>>, <<68900,68903>>, <<69291,69292>>,
    <<69446,69456>>, <<69506,69509>>, <<69633,69633>>, <<69688,69702>>, <<69744,69744>>,
    <<69747,69748>>, <<69759,69761>>, <<69811,69814>>, <<69817,69818>>, <<69821,69821>>,
    <<69826,69826>>, <<69837,69837>>, <<69888,69890>>, <<69927,69931>>, <<69933,69940>>,
    <<70003,70003>>, <<70016,70017>>, <<70070,70078>>, <<70089,70092>>, <<70095,70095>>,
    <<70191,70193>>, <<70196,70196>>, <<70198,70199>>, <<70206,70206>>, <<70367,70367>>,
    <<70371,70378>>, <<70400,70401>>, <<70459,70460>>, <<70464,70464>>, <<70502,70508>>,
    <<70512,70516>>, <<70712,70719>>, <<70722,70724>>, <<70726,70726>>, <<70750,70750>>,
    <<70835,70840>>, <<70842,70842>>, <<70847,70848>>, <<70850,70851>>, <<71090,71093>>,
    <<71100,71101>>, <<71103,71104>>, <<71132,71133>>, <<71219,71226>>, <<71229,71229>>,
    <<71231,71232>>, <<71339,71339>>, <<71341,71341>>, <<71344,71349>>, <<71351,71351>>,
    <<71453,71455>>, <<71458,71461>>, <<71463,71467>>, <<71727,71735>>, <<71737,71738>>,
    <<71995,71996>>, <<71998,71998>>, <<72003,72003>>, <<72148,72151>>, <<72154,72155>>,
    <<72160,72160>>, <<72193,72202>>, <<72243,72248>>, <<72251,72254>>, <<72263,72263>>,
    <<72273,72278>>, <<72281,72283>>, <<72330,72342>>, <<72344,72345>>, <<72752,72758>>,
    <<72760,72765>>, <<72767,72767>>, <<72850,72871>>, <<72874,72880>>, <<72882,72883>>,
    <<72885,72886>>, <<73009,73014>>, <<73018,73018>>, <<73020,73021>>, <<73023,73029>>,
    <<73031,73031>>, <<73104,73105>>, <<73109,73109>>, <<73111,73111>>, <<73459,73460>>,
    <<78896,78904>>, <<92912,92916>>, <<92976,92982>>, <<92992,92995>>, <<94031,94031>>,
    <<94095,94111>>, <<94176,94177>>, <<94179,94180>>, <<110576,110579>>, <<110581,110587>>,
    <<110589,110590>>, <<113821,113822>>, <<113824,113827>>, <<118528,118573>>, <<118576,118598>>,
    <<119143,119145>>, <<119155,119170>>, <<119173,119179>>, <<119210,119213>>, <<119362,119364>>,
    <<121344,121398>>, <<121403,121452>>, <<121461,121461>>, <<121476,121476>>, <<121499,121503>>,
    <<121505,121519>>, <<122880,122886>>, <<122888,122904>>, <<122907,122913>>, <<122915,122916>>,
    <<122918,122922>>, <<123184,123197>>, <<123566,123566>>, <<123628,123631>>, <<125136,125142>>,
    <<125252,125259>>, <<127995,127999>>, <<917505,917505>>, <<917536,917631>>, <<917760,917999>> }

\* The cased code points that are not case-ignorable.
CasedLetters == {
    <<65,90>>, <<97,122>>, <<170,170>>, <<181,181>>, <<186,186>>, <<192,214>>, <<216,246>>,
    <<248,442>>, <<444,447>>, <<452,659>>, <<661,687>>, <<880,883>>, <<886,887>>, <<891,893>>,
    <<895,895>>, <<902,902>>, <<904,906>>, <<908,908>>, <<910,929>>, <<931,1013>>, <<1015,1153>>,
    <<1162,1327>>, <<1329,1366>>, <<1376,1416>>, <<4256,4293>>, <<4295,4295>>, <<4301,4301>>,
    <<4304,4346>>, <<4349,4351>>, <<5024,5109>>, <<5112,5117>>, <<7296,7304>>, <<7312,7354>>,
    <<7357,7359>>, <<7424,7467>>, <<7531,7543>>, <<7545,7578>>, <<7680,7957>>, <<7960,7965>>,
    <<7968,8005>>, <<8008,8013>>, <<8016,8023>>, <<8025,8025>>, <<8027,8027>>, <<8029,8029>>,
    <<8031,8061>>, <<8064,8116>>, <<8118,8124>>, <<8126,8126>>, <<8130,8132>>, <<8134,8140>>,
    <<8144,8147>>, <<8150,8155>>, <<8160,8172>>, <<8178,8180>>, <<8182,8188>>, <<8450,8450>>,
    <<8455,8455>>, <<8458,8467>>, <<8469,8469>>, <<8473,8477>>, <<8484,8484>>, <<8486,8486>>,
    <<8488,8488>>, <<8490,8493>>, <<8495,8500>>, <<8505,8505>>, <<8508,8511>>, <<8517,8521>>,
    <<8526,8526>>, <<8544,8575>>, <<8579,8580>>, <<9398,9449>>, <<11264,11387>>, <<11390,11492>>,
    <<11499,11502>>, <<11506,11507>>, <<11520,11557>>, <<11559,11559>>, <<11565,11565>>,
    <<42560,42605>>, <<42624,42651>>, <<42786,42863>>, <<42865,42887>>, <<42891,42894>>,
    <<42896,42954>>, <<42960,42961>>, <<42963,42963>>, <<42965,42969>>, <<42997,42998>>,
    <<43002,43002>>, <<43824,43866>>, <<43872,43880>>, <<43888,43967>>, <<64256,64262>>,
    <<64275,64279>>, <<65313,65338>>, <<65345,65370>>, <<66560,66639>>, <<66736,66771>>,
    <<66776,66811>>, <<66928,66938>>, <<66940,66954>>, <<66956,66962>>, <<66964,66965>>,
    <<66967,66977>>, <<66979,66993>>, <<66995,67001>>, <<67003,67004>>, <<68736,68786>>,
    <<68800,68850>>, <<71840,71903>>, <<93760,93823>>, <<119808,119892>>, <<119894,119964>>,
    <<119966,119967>>, <<119970,119970>>, <<119973,119974>>, <<119977,119980>>, <<119982,119993>>,
    <<119995,119995>>, <<119997,120003>>, <<120005,120069>>, <<120071,120074>>, <<120077,120084>>,
    <<120086,120092>>, <<120094,120121>>, <<120123,120126>>, <<120128,120132>>, <<120134,120134>>,
    <<120138,120144>>, <<120146,120485>>, <<120488,120512>>, <<120514,120538>>, <<120540,120570>>,
    <<120572,120596>>, <<120598,120628>>, <<120630,120654>>, <<120656,120686>>, <<120688,120712>>,
    <<120714,120744>>, <<120746,120770>>, <<120772,120779>>, <<122624,122633>>, <<122635,122654>>,
    <<125184,125251>>, <<127280,127305>>, <<127312,127337>>, <<127344,127369>> }

InRanges(c, ranges) == \E r \in ranges : r[1] <= c /\ c <= r[2]

\* Whitespace: what str.strip() strips and the regex class \s matches.
IsSpace(c) == InRanges(c, SpaceRanges)

\* The regex class \w: alphanumeric characters and the underscore.
IsWord(c) ==
    IF c < 128
    THEN c \in (48..57) \cup (65..90) \cup (97..122) \cup {95}
    ELSE InRanges(c, WordRanges)

\* How far str.lower() moves a character that lowers to one character.
LowerDelta(c) ==
    IF c < 128
    THEN (IF c \in 65..90 THEN 32 ELSE 0)
    ELSE LET hit == {r \in LowerRuns : r[1] <= c /\ c <= r[2] /\ (c - r[1]) % r[3] = 0}
         IN  IF hit = {} THEN 0 ELSE (CHOOSE r \in hit : TRUE)[4]

\* The capital sigma at position k lowers to the final form: a cased letter
\* comes before it and none after it, case-ignorable characters skipped.
FinalSigma(s, k) ==
    LET before == {j \in 1..(k - 1) : ~InRanges(s[j], CaseIgnorable)}
        after == {j \in (k + 1)..Len(s) : ~InRanges(s[j], CaseIgnorable)}
    IN  /\ before # {}
        /\ InRanges(s[CHOOSE j \in before : \A m \in before : m <= j], CasedLetters)
        /\ \/ after = {}
           \/ ~InRanges(s[CHOOSE j \in after : \A m \in after : j <= m], CasedLetters)

\* str.lower() on the character at position k: the capital I with a dot lowers
\* to two characters, the capital sigma by its position.
LowerChar(s, k) ==
    IF s[k] = 304 THEN <<105, 775>>
    ELSE IF s[k] = 931 THEN <<IF FinalSigma(s, k) THEN 962 ELSE 963>>
    ELSE <<s[k] + LowerDelta(s[k])>>

RECURSIVE LowerFrom(_, _)
LowerFrom(s, k) == IF k > Len(s) THEN <<>> ELSE LowerChar(s, k) \o LowerFrom(s, k + 1)

\* str.lower()
Lower(s) == LowerFrom(s, 1)

\* str.strip()
RECURSIVE LStrip(_)
LStrip(s) == IF s # <<>> /\ IsSpace(Head(s)) THEN LStrip(Tail(s)) ELSE s

RECURSIVE RStrip(_)
RStrip(s) ==
    IF s # <<>> /\ IsSpace(s[Len(s)]) THEN RStrip(SubSeq(s, 1, Len(s) - 1)) ELSE s

Strip(s) == RStrip(LStrip(s))

\* `sub in s`
Contains(s, sub) ==
    \E k \in 0..(Len(s) - Len(sub)) : SubSeq(s, k + 1, k + Len(sub)) = sub

\* sep.join(parts)
RECURSIVE Join(_, _)
Join(parts, sep) ==
    IF parts = <<>> THEN <<>>
    ELSE IF Len(parts) = 1 THEN parts[1]
    ELSE parts[1] \o sep \o Join(Tail(parts), sep)

\* s.split("\n"): the pieces between newlines (one piece, the empty one, for "").
RECURSIVE SplitLines(_)
SplitLines(s) ==
    IF \E k \in DOMAIN s : s[k] = 10
    THEN LET k == CHOOSE j \in DOMAIN s : s[j] = 10 /\ \A m \in 1..(j - 1) : s[m] # 10
         IN  <<SubSeq(s, 1, k - 1)>> \o SplitLines(SubSeq(s, k + 1, Len(s)))
    ELSE <<s>>

(***************************************************************************)
(* clean_text                                                              *)
(*                                                                         *)
(* The fragment is the tree BeautifulSoup(html_content, "html.parser")     *)
(* builds: a sequence of nodes, a node being a text node                   *)
(* [tag |-> "#text", text |-> chars] or an element                         *)
(* [tag |-> name, kids |-> nodes].                                         *)
(***************************************************************************)

TextNode(s) == [tag |-> "#text", text |-> s, kids |-> <<>>]
Element(t, kids) == [tag |-> t, text |-> <<>>, kids |-> kids]

\* What get_attribute("innerHTML") returns: markup (as the parser reads it), or None.
Markup(nodes) == [present |-> TRUE, nodes |-> nodes]
NoMarkup == [present |-> FALSE, nodes |-> <<>>]

\* The markers, in the order of the source: "ad:", "hgame:",
\* the two CJK phrases, "www.", "http", ".com".
ad_keywords == <<
    <<97, 100, 58>>,
    <<104, 103, 97, 109, 101, 58>>,
    <<26412, 31449, 21457, 24067, 39029>>,
    <<35831, 21247, 20351, 29992, 38750, 27983,
      35272, 22120, 35775, 38382, 26412, 31449>>,
    <<119, 119, 119, 46>>,
    <<104, 116, 116, 112>>,
    <<46, 99, 111, 109>> >>

\* tag.decompose() for every tag named in `tags`: the element goes with its descendants.
RECURSIVE Decompose(_, _)
Decompose(nodes, tags) ==
    IF nodes = <<>> THEN <<>>
    ELSE LET n == Head(nodes)
             rest == Decompose(Tail(nodes), tags)
         IN  IF n.tag \in tags THEN rest
             ELSE IF n.tag = "#text" THEN <<n>> \o rest
             ELSE <<Element(n.tag, Decompose(n.kids, tags))>> \o rest

\* The strings get_text(strip=True) walks: every text node in document order,
\* stripped, the empty ones skipped.
RECURSIVE StrippedStrings(_)
StrippedStrings(nodes) ==
    IF nodes = <<>> THEN <<>>
    ELSE LET n == Head(nodes)
             rest == StrippedStrings(Tail(nodes))
         IN  IF n.tag = "#text"
             THEN (IF Strip(n.text) = <<>> THEN rest ELSE <<Strip(n.text)>> \o rest)
             ELSE StrippedStrings(n.kids) \o rest

\* soup.get_text(strip=True, separator="\n")
get_text(nodes) == Join(StrippedStrings(nodes), <<10>>)

\* any(keyword in line.lower() for keyword in ad_keywords)
HasAdKeyword(line) ==
    LET lowered == Lower(line)
    IN  \E k \in DOMAIN ad_keywords : Contains(lowered, ad_keywords[k])

\* re.match(r"^[^\w\s]+$", line): one or more characters, none a word character
\* or whitespace.
PunctOnly(line) ==
    /\ line # <<>>
    /\ \A k \in DOMAIN line : ~IsWord(line[k]) /\ ~IsSpace(line[k])

\* The loop over lines: a line with an ad keyword is skipped; a line that is not
\* blank and does not match the punctuation regex is appended, stripped.
RECURSIVE FilterLines(_)
FilterLines(lines) ==
    IF lines = <<>> THEN <<>>
    ELSE LET line == Head(lines)
             rest == FilterLines(Tail(lines))
         IN  IF HasAdKeyword(line) THEN rest
             ELSE IF Strip(line) # <<>> /\ ~PunctOnly(line) THEN <<Strip(line)>> \o rest
             ELSE rest

\* cleaned_lines of clean_text.
cleaned_lines(fragment) ==
    LET soup1 == Decompose(fragment, {"script", "style", "ins", "noscript"})
        soup2 == Decompose(soup1, {"a"})
    IN  FilterLines(SplitLines(get_text(soup2)))

clean_text(fragment) ==
    Join(SelectSeq(cleaned_lines(fragment), LAMBDA l : l # <<>>), <<10, 10>>)

(***************************************************************************)
(* detect_content_selector                                                 *)
(*                                                                         *)
(* The page is what the driver answers for each candidate selector:        *)
(* find_elements raises, or returns a list of elements; an element's       *)
(* .text raises (a stale element), or has a length.                        *)
(***************************************************************************)

potential_selectors ==
    <<"div#content", "div#contenta", "div.novelcontent", "div.read-content",
      "div.article-content">>

\* The content length threshold of detect_content_selector.
Threshold == 500

Elem(ok, n) == [ok |-> ok, len |-> n]
Lookup(raises, elements) == [raises |-> raises, elements |-> elements]

\* The test of one candidate: the try body reaches `return selector`.
\* An exception (find_elements, or .text of the first element) is swallowed
\* by the bare except and the loop continues.
\* (Faulty variant: a text of exactly the threshold length qualifies.)
QualifiesAtThreshold(lookup) ==
    /\ ~lookup.raises
    /\ lookup.elements # <<>>
    /\ lookup.elements[1].ok
    /\ lookup.elements[1].len >= Threshold
Qualifies(lookup) ==
    /\ ~lookup.raises
    /\ lookup.elements # <<>>
    /\ lookup.elements[1].ok
    /\ lookup.elements[1].len > Threshold

\* The for loop from candidate k on; "body" when it runs out.
RECURSIVE DetectFrom(_, _)
DetectFrom(page, k) ==
    IF k > Len(potential_selectors) THEN "body"
    ELSE IF Qualifies(page[k]) THEN potential_selectors[k]
    ELSE DetectFrom(page, k + 1)

detect_content_selector(page) == DetectFrom(page, 1)

(***************************************************************************)
(* clean_text and detect_content_selector run on their own, on every       *)
(* input within the bounds.                                                *)
(***************************************************************************)

\* Longest text of a fragment (all its text nodes together).
MaxLen == 4
\* Most candidates of a page that have a matching element or raise.
MaxActive == 2

\* "a", "D", ":", " ", the newline, the ideographic space and a CJK letter.
Alphabet == {97, 68, 58, 32, 10, 12288, 20013}
StringsUpTo(len) == UNION {[1..n -> Alphabet] : n \in 0..len}

\* The shapes a piece of text is wrapped in: bare text, <script>, <a>, <p>,
\* <ins><p>, <p><a>.
Shapes == {"text", "script", "a", "p", "ins>p", "p>a"}
Wrap(shape, s) ==
    LET t == IF s = <<>> THEN <<>> ELSE <<TextNode(s)>>
    IN  CASE shape = "text"   -> t
          [] shape = "script" -> <<Element("script", t)>>
          [] shape = "a"      -> <<Element("a", t)>>
          [] shape = "p"      -> <<Element("p", t)>>
          [] shape = "ins>p"  -> <<Element("ins", <<Element("p", t)>>)>>
          [] shape = "p>a"    -> <<Element("p", <<Element("a", t)>>)>>

\* Fragments of two pieces. The parser never leaves two text nodes side by side.
FragmentsUpTo(len) ==
    {Wrap(sh[1], SubSeq(s, 1, k)) \o Wrap(sh[2], SubSeq(s, k + 1, Len(s))) :
        <<s, k, sh>> \in
            {x \in StringsUpTo(len) \X (0..len) \X (Shapes \X Shapes) :
                /\ x[2] <= Len(x[1])
                /\ ~(x[3][1] = "text" /\ x[3][2] = "text" /\ x[2] \in 1..(Len(x[1]) - 1))}}

ElemKinds == {Elem(FALSE, 0), Elem(TRUE, Threshold), Elem(TRUE, Threshold + 1)}
NoMatch == Lookup(FALSE, <<>>)
Lookups ==
    {Lookup(TRUE, <<>>)}
        \cup {Lookup(FALSE, <<e>>) : e \in ElemKinds}
        \cup {Lookup(FALSE, <<e1, e2>>) : e1 \in ElemKinds, e2 \in ElemKinds}
\* Pages on which at most `active` candidates match an element or raise.
PagesWith(active) ==
    UNION {{[k \in DOMAIN potential_selectors |-> IF k \in A THEN f[k] ELSE NoMatch] :
                f \in [A -> Lookups]} :
            A \in {S \in SUBSET DOMAIN potential_selectors : Cardinality(S) <= active}}

BatchIdle ==
    /\ source = None /\ urls = <<>> /\ cli_selector = None /\ append = FALSE
    /\ file = <<>> /\ selector = None /\ i = 0 /\ all_content = <<>>
    /\ sel = None /\ content_html = NoMarkup /\ ret = None /\ sessions = <<>>
    /\ calls = <<>> /\ written = <<>> /\ report = None

InitClean ==
    /\ pc = "clean_call"
    /\ cl_in \in FragmentsUpTo(MaxLen)
    /\ cl_out = None
    /\ dt_in = None /\ dt_out = None
    /\ BatchIdle

CleanCall ==
    /\ pc = "clean_call"
    /\ cl_out' = clean_text(cl_in)
    /\ pc' = "clean_done"
    /\ UNCHANGED <<cl_in, dt_in, dt_out>>
    /\ UNCHANGED batch_vars

SpecClean == InitClean /\ [][CleanCall]_vars

InitDetect ==
    /\ pc = "detect_call"
    /\ dt_in \in PagesWith(MaxActive)
    /\ dt_out = None
    /\ cl_in = None /\ cl_out = None
    /\ BatchIdle

DetectCall ==
    /\ pc = "detect_call"
    /\ dt_out' = detect_content_selector(dt_in)
    /\ pc' = "detect_done"
    /\ UNCHANGED <<dt_in, cl_in, cl_out>>
    /\ UNCHANGED batch_vars

SpecDetect == InitDetect /\ [][DetectCall]_vars

(***************************************************************************)
(* scrape_text, batch_scrape and main                                      *)
(*                                                                         *)
(* verify_time and headless only set how long scrape_text sleeps and are   *)
(* left out.  A session counts as "quit" once driver.quit() was called on  *)
(* it, whether or not the call raised.                                     *)
(***************************************************************************)

\* Most URLs in a batch.
MaxUrls == 3

UrlNames == << <<117, 49>>, <<117, 50>>, <<117, 51>>, <<117, 52>>, <<117, 53>> >>
UrlLists == {SubSeq(UrlNames, 1, n) : n \in 0..MaxUrls}

\* The content of the output file before the run.
PriorFile == <<111, 108, 100>>

\* The pages the driver shows to detection: the first candidate qualifies, only
\* the third does, none does.
LongElem == Lookup(FALSE, <<Elem(TRUE, Threshold + 1)>>)
BatchPages ==
    {[k \in DOMAIN potential_selectors |-> IF k = q THEN LongElem ELSE NoMatch] :
        q \in {1, 3, 0}}

\* The innerHTML of the located element: a paragraph of text, or only an ad line
\* and a script.
BatchHtml ==
    { Markup(<<Element("p", <<TextNode(<<97, 10, 68>>)>>)>>),
      Markup(<<Element("script", <<TextNode(<<97>>)>>), TextNode(<<65, 100, 58>>)>>) }

\* `if not selector` of scrape_text: the selector is None or the empty string.
\* (Faulty variant: detection runs whatever selector was passed.)
AlwaysDetect(s) == TRUE
NeedsDetection(s) == s = None \/ s = ""

\* Where control goes when the try body of scrape_text ends, by return or by an
\* exception (caught by `except Exception`, which builds the error result): the
\* finally block.
\* (Faulty variant: driver.quit() only on the normal path.)
FinallyOnReturnOnly(raised) == IF raised THEN "returned" ELSE "finally"
AfterBody(raised) == "finally"

\* The result of a successful scrape, and of a failed one.
Success(url, text, s) == [url |-> url, content |-> text, selector |-> s]
Failure(url, e) == [url |-> url, content |-> <<>>, error |-> e]

\* all_content.append(result)
\* (Faulty variant: the result is put first.)
Prepend(all, result) == <<result>> \o all
AppendResult(all, result) == Append(all, result)

\* `if i == 1 and not selector and "selector" in result: selector = result["selector"]`
\* (Faulty variant: the detected selector is never adopted.)
NeverAdopt(k, s, result) == s
Adopt(k, s, result) ==
    IF k = 1 /\ (s = None \/ s = "") /\ "selector" \in DOMAIN result
    THEN result.selector
    ELSE s

\* `if result["content"]`: the result has a section in the combined text.
\* (Faulty variant: a result without content gets a section too.)
IncludeAll(result) == TRUE
HasContent(result) == result.content # <<>>

\* "来源: "
Label == <<26469, 28304, 58, 32>>
\* "=" * 50
DividerWidth == 50
Divider == [k \in 1..DividerWidth |-> 61]
NL2 == <<10, 10>>

Section(result) == Label \o result.url \o NL2 \o result.content

RECURSIVE Sections(_)
Sections(all) ==
    IF all = <<>> THEN <<>>
    ELSE IF HasContent(Head(all)) THEN <<Section(Head(all))>> \o Sections(Tail(all))
    ELSE Sections(Tail(all))

\* "\n\n" + "=" * 50 + "\n\n".join([...])
combined_text(all) == NL2 \o Divider \o Join(Sections(all), NL2)

\* What batch_scrape prints at the end: the number of saved pages and one
\* status per URL ("ok", or the recorded error, "unknown" when there is none).
Status(result) ==
    IF result.content # <<>> THEN "ok"
    ELSE IF "error" \in DOMAIN result THEN result.error ELSE "unknown"
Summary(all) ==
    [saved |-> Len(SelectSeq(all, LAMBDA r : r.content # <<>>)),
     lines |-> [k \in DOMAIN all |-> [url |-> all[k].url, status |-> Status(all[k])]]]

PureIdle == cl_in = None /\ cl_out = None /\ dt_in = None /\ dt_out = None
pure_vars == <<cl_in, cl_out, dt_in, dt_out>>

Init ==
    /\ pc = "main"
    /\ source \in {"url", "file", "badfile"}
    /\ urls \in UrlLists
    /\ source = "url" => Len(urls) = 1
    /\ source = "badfile" => urls = <<>>
    /\ cli_selector \in {None, "", "div.chapter"}
    /\ append \in BOOLEAN
    /\ file = PriorFile
    /\ selector = None /\ i = 0 /\ all_content = <<>>
    /\ sel = None /\ content_html = NoMarkup /\ ret = None
    /\ sessions = <<>> /\ calls = <<>>
    /\ written = <<>> /\ report = None
    /\ PureIdle

\* main: the URL list is args.url alone or the loaded file; a load that raises
\* is reported and main returns before batch_scrape is called.
Main ==
    /\ pc = "main"
    /\ IF source = "badfile"
       THEN pc' = "aborted" /\ UNCHANGED <<selector, i>>
       ELSE pc' = "loop" /\ selector' = cli_selector /\ i' = 1
    /\ UNCHANGED <<source, urls, cli_selector, append, file, all_content, sel,
                   content_html, ret, sessions, calls, written, report>>
    /\ UNCHANGED pure_vars

NewCall == [url |-> urls[i], selector |-> selector, detected |-> None, raised |-> FALSE]

\* batch_scrape calls scrape_text(url, selector, ...); setup_driver returns a driver.
CallScrape ==
    /\ pc = "loop" /\ i <= Len(urls)
    /\ calls' = Append(calls, NewCall)
    /\ sessions' = Append(sessions, "open")
    /\ sel' = selector
    /\ content_html' = NoMarkup /\ ret' = None
    /\ pc' = "get"
    /\ UNCHANGED <<source, urls, cli_selector, append, file, selector, i, all_content,
                   written, report>>
    /\ UNCHANGED pure_vars

\* setup_driver raises: it is called before the try, so the exception leaves
\* scrape_text, batch_scrape and main.
SetupFails ==
    /\ pc = "loop" /\ i <= Len(urls)
    /\ calls' = Append(calls, NewCall)
    /\ pc' = "crashed"
    /\ UNCHANGED <<source, urls, cli_selector, append, file, selector, i, all_content,
                   sel, content_html, ret, sessions, written, report>>
    /\ UNCHANGED pure_vars

\* An exception in the try body: the except clause builds the error result.
Raise(e) ==
    /\ ret' = Failure(urls[i], e)
    /\ calls' = [calls EXCEPT ![Len(calls)].raised = TRUE]
    /\ pc' = AfterBody(TRUE)

\* driver.get(url) and the sleeps.
Navigate ==
    /\ pc = "get"
    /\ \/ /\ pc' = IF NeedsDetection(sel) THEN "detect" ELSE "locate"
          /\ UNCHANGED <<ret, calls>>
       \/ Raise("navigation failed")
    /\ UNCHANGED <<source, urls, cli_selector, append, file, selector, i, all_content,
                   sel, content_html, sessions, written, report>>
    /\ UNCHANGED pure_vars

\* selector = detect_content_selector(driver)
Detect ==
    /\ pc = "detect"
    /\ \E page \in BatchPages :
          /\ sel' = detect_content_selector(page)
          /\ calls' = [calls EXCEPT ![Len(calls)].detected = sel']
    /\ pc' = "locate"
    /\ UNCHANGED <<source, urls, cli_selector, append, file, selector, i, all_content,
                   content_html, ret, sessions, written, report>>
    /\ UNCHANGED pure_vars

\* The wait (its timeout is swallowed), find_element and get_attribute("innerHTML"):
\* the element's markup (None when the driver returns none), or an exception.
Locate ==
    /\ pc = "locate"
    /\ \/ /\ \E h \in BatchHtml \cup {NoMarkup} : content_html' = h
          /\ pc' = "clean"
          /\ UNCHANGED <<ret, calls>>
       \/ Raise("no such element") /\ UNCHANGED content_html
    /\ UNCHANGED <<source, urls, cli_selector, append, file, selector, i, all_content,
                   sel, sessions, written, report>>
    /\ UNCHANGED pure_vars

\* cleaned_text = clean_text(content_html) and the return; the parser raises on None.
Clean ==
    /\ pc = "clean"
    /\ IF ~content_html.present
       THEN Raise("invalid markup")
       ELSE /\ ret' = Success(urls[i], clean_text(content_html.nodes), sel)
            /\ pc' = AfterBody(FALSE)
            /\ UNCHANGED calls
    /\ UNCHANGED <<source, urls, cli_selector, append, file, selector, i, all_content,
                   sel, content_html, sessions, written, report>>
    /\ UNCHANGED pure_vars

\* finally: driver.quit(). When it raises, the exception replaces the return
\* value and leaves scrape_text.
Quit ==
    /\ pc = "finally"
    /\ sessions' = [sessions EXCEPT ![Len(sessions)] = "quit"]
    /\ \E ok \in BOOLEAN : pc' = IF ok THEN "returned" ELSE "crashed"
    /\ UNCHANGED <<source, urls, cli_selector, append, file, selector, i, all_content,
                   sel, content_html, ret, calls, written, report>>
    /\ UNCHANGED pure_vars

\* Back in batch_scrape: the result is collected, the first URL's selector adopted.
Collect ==
    /\ pc = "returned"
    /\ all_content' = AppendResult(all_content, ret)
    /\ selector' = Adopt(i, selector, ret)
    /\ i' = i + 1
    /\ pc' = "loop"
    /\ UNCHANGED <<source, urls, cli_selector, append, file, sel, content_html, ret,
                   sessions, calls, written, report>>
    /\ UNCHANGED pure_vars

\* After the loop: the combined text is written (appended or overwriting) and
\* the summary printed.
WriteOutput ==
    /\ pc = "loop" /\ i > Len(urls)
    /\ written' = combined_text(all_content)
    /\ file' = IF append THEN file \o written' ELSE written'
    /\ report' = Summary(all_content)
    /\ pc' = "done"
    /\ UNCHANGED <<source, urls, cli_selector, append, selector, i, all_content, sel,
                   content_html, ret, sessions, calls>>
    /\ UNCHANGED pure_vars

Next ==
    \/ Main \/ CallScrape \/ SetupFails \/ Navigate \/ Detect \/ Locate \/ Clean
    \/ Quit \/ Collect \/ WriteOutput

Spec == Init /\ [][Next]_vars

(***************************************************************************)
(* Properties                                                              *)
(***************************************************************************)

Terminal == pc \in {"done", "aborted", "crashed"}
InScrape == pc \in {"get", "detect", "locate", "clean", "finally"}
IsFailure(r) == "error" \in DOMAIN r /\ r.content = <<>>
Min(S) == CHOOSE m \in S : \A n \in S : m <= n

\* The places of the text where the source label stands, and the k-th of them.
LabelPositions(text) ==
    {p \in 1..Len(text) :
        /\ p + Len(Label) - 1 <= Len(text)
        /\ SubSeq(text, p, p + Len(Label) - 1) = Label}
NthPosition(P, k) == CHOOSE p \in P : Cardinality({q \in P : q <= p}) = k
StartsAt(text, p, piece) ==
    /\ p + Len(piece) - 1 <= Len(text)
    /\ SubSeq(text, p, p + Len(piece) - 1) = piece
NonEmptyResults == SelectSeq(all_content, LAMBDA r : r.content # <<>>)

\* C1: when a step of scrape_text after the session was acquired raises, the
\* call returns a result with an error and empty content, the exception does
\* not reach batch_scrape (the run is not ended by an exception), and the batch
\* goes on to a result for every URL.
OrigC1 ==
    \A k \in DOMAIN calls :
        calls[k].raised =>
            /\ pc # "crashed"
            /\ k <= Len(all_content) => IsFailure(all_content[k])
            /\ pc = "done" => Len(all_content) = Len(urls)

\* C2: the collected results are, position by position, the results of the
\* URLs processed so far, in input order; no URL is scraped twice; when the
\* loop has ended there is one call and one result per URL.
InvC2 ==
    /\ Len(all_content) <= Len(calls) /\ Len(calls) <= Len(urls)
    /\ \A k \in DOMAIN calls : calls[k].url = urls[k]
    /\ pc = "loop" => Len(all_content) = i - 1 /\ Len(calls) = i - 1
    /\ \A k \in DOMAIN all_content :
          /\ all_content[k].url = urls[k]
          /\ IsFailure(all_content[k]) <=> calls[k].raised
          /\ ~calls[k].raised =>
                all_content[k].selector =
                    (IF calls[k].detected # None THEN calls[k].detected
                     ELSE calls[k].selector)
    /\ (pc = "done" \/ (pc = "loop" /\ i > Len(urls))) =>
          Len(all_content) = Len(urls) /\ Len(calls) = Len(urls)

WitC2 ==
    /\ pc = "done" /\ Len(urls) = 3
    /\ IsFailure(all_content[2])
    /\ ~IsFailure(all_content[1]) /\ ~IsFailure(all_content[3])

\* C3: only the session of the scrape_text call in progress can be open; once
\* the call has ended, by return or by exception, driver.quit() was called on
\* its session, so at most one session is open and the session of a URL is
\* released before the next URL's is acquired.
InvC3 ==
    /\ \A k \in DOMAIN sessions :
          sessions[k] = "open" => k = Len(sessions) /\ InScrape
    /\ Cardinality({k \in DOMAIN sessions : sessions[k] = "open"}) <= 1

WitC3 ==
    /\ pc = "get" /\ Len(sessions) = 2
    /\ calls[1].raised
    /\ sessions[1] = "quit" /\ sessions[2] = "open"

\* The caller supplied no selector: None, or the empty string, which the code
\* treats alike.
NoSelector(s) == s \in {None, ""}

\* C4 as stated: with no selector supplied, once the first call has detected s
\* every later call receives s and does not detect; with a selector supplied
\* every call receives it and none detects.
OrigC4 ==
    /\ (cli_selector = None /\ calls # <<>> /\ calls[1].detected # None) =>
          \A k \in 2..Len(calls) :
              calls[k].selector = calls[1].detected /\ calls[k].detected = None
    /\ cli_selector # None =>
          \A k \in DOMAIN calls :
              calls[k].selector = cli_selector /\ calls[k].detected = None

\* C4 amended: with no selector supplied (None, or the empty string), once the
\* first call has detected s and returned it in its result, every later call
\* receives s and does not detect; with a non-empty selector supplied every
\* call receives it and none detects.
AmendC4 ==
    /\ (NoSelector(cli_selector) /\ all_content # <<>>
            /\ "selector" \in DOMAIN all_content[1]) =>
          /\ all_content[1].selector = calls[1].detected
          /\ \A k \in 2..Len(calls) :
                calls[k].selector = calls[1].detected /\ calls[k].detected = None
    /\ ~NoSelector(cli_selector) =>
          \A k \in DOMAIN calls :
              calls[k].selector = cli_selector /\ calls[k].detected = None

WitC4 ==
    /\ pc = "done" /\ cli_selector = None /\ Len(calls) = 3
    /\ calls[1].detected = "div#content"
    /\ "selector" \in DOMAIN all_content[1]
    /\ calls[2].selector = "div#content" /\ calls[3].selector = "div#content"

\* C5 as stated: once a call of the batch has detected a selector, no later
\* call of the batch detects again.
OrigC5 ==
    \A j \in DOMAIN calls : \A k \in DOMAIN calls :
        (j < k /\ calls[j].detected # None) => calls[k].detected = None

\* The result r is the error result of a failed driver.get.
NavigationFailed(r) == "error" \in DOMAIN r /\ r.error = "navigation failed"

\* The k-th call got past driver.get and the sleeps, to the detection step
\* (`if not selector`): its result, collected or about to be returned, is not
\* that of a failed navigation, or the call is at a later step of its try body.
ReachedDetection(k) ==
    IF k <= Len(all_content) THEN ~NavigationFailed(all_content[k])
    ELSE /\ k = Len(calls) /\ Len(sessions) = Len(calls)
         /\ \/ pc \in {"locate", "clean"}
            \/ pc \in {"finally", "returned", "crashed"} /\ ~NavigationFailed(ret)

\* C5 amended: once the first call has returned a result that carries a
\* selector, no later call detects; when no selector was supplied (None, or the
\* empty string) and the first call failed (before or after its detection),
\* every later call receives the caller's absent selector, and has run
\* detection exactly when it got past the navigation to the detection step.
AmendC5 ==
    /\ (all_content # <<>> /\ "selector" \in DOMAIN all_content[1]) =>
          \A k \in 2..Len(calls) : calls[k].detected = None
    /\ (NoSelector(cli_selector) /\ all_content # <<>>
            /\ "selector" \notin DOMAIN all_content[1]) =>
          \A k \in 2..Len(calls) :
              /\ calls[k].selector = cli_selector
              /\ ReachedDetection(k) <=> calls[k].detected # None

\* The first attempt detects and then fails; the second fails at the navigation
\* and does not detect; the third detects again.
WitC5 ==
    /\ pc = "done" /\ Len(calls) = 3 /\ NoSelector(cli_selector)
    /\ calls[1].detected # None /\ calls[1].raised
    /\ NavigationFailed(all_content[2]) /\ calls[2].detected = None
    /\ calls[3].detected # None /\ ~calls[3].raised

\* The first attempt returns its detected selector and no later call detects.
WitC5Adopted ==
    /\ pc = "done" /\ Len(calls) = 3 /\ cli_selector = None
    /\ calls[1].detected # None /\ ~calls[1].raised
    /\ calls[2].detected = None /\ calls[3].detected = None

\* C6: the text written holds one labeled section (the label, the URL, a blank
\* line, the content) per result with content, in input order, and none for a
\* result without; the reported number of saved pages is the number of results
\* with content, and every other URL is reported as a failure.
InvC6 ==
    pc = "done" =>
        LET P == LabelPositions(written)
            good == NonEmptyResults
        IN  /\ Cardinality(P) = Len(good)
            /\ \A k \in 1..Len(good) :
                  StartsAt(written, NthPosition(P, k),
                           Label \o good[k].url \o NL2 \o good[k].content)
            /\ report.saved = Len(good)
            /\ Len(report.lines) = Len(urls)
            /\ \A k \in DOMAIN all_content :
                  /\ report.lines[k].url = urls[k]
                  /\ report.lines[k].status = "ok" <=> all_content[k].content # <<>>

WitC6 ==
    /\ pc = "done" /\ Len(urls) = 3
    /\ all_content[1].content # <<>>
    /\ IsFailure(all_content[2])
    /\ all_content[3].content # <<>>
    /\ report.saved = 2

\* C7: in the text written every two consecutive labeled sections have the
\* divider (50 "=") between them.
OrigC7 ==
    pc = "done" =>
        LET P == LabelPositions(written)
        IN  \A k \in 1..(Cardinality(P) - 1) :
                Contains(SubSeq(written, NthPosition(P, k), NthPosition(P, k + 1) - 1),
                         Divider)

\* C8: no failure inside a per-URL scrape ends the run: the run ends either
\* with every URL processed and the text written, or, when the URL file could
\* not be loaded, with no URL scraped and nothing written.
OrigC8 ==
    Terminal =>
        \/ /\ pc = "done"
           /\ Len(all_content) = Len(urls)
           /\ written # <<>>
        \/ /\ pc = "aborted" /\ source = "badfile"
           /\ calls = <<>> /\ written = <<>> /\ file = PriorFile

\* C9 as stated: the selector returned is the first candidate with a
\* matching element whose text is longer than the threshold, "body" when
\* there is none.
OrigC9 ==
    pc = "detect_done" =>
        LET Q == {k \in DOMAIN potential_selectors :
                    /\ ~dt_in[k].raises
                    /\ \E e \in DOMAIN dt_in[k].elements :
                          /\ dt_in[k].elements[e].ok
                          /\ dt_in[k].elements[e].len > Threshold}
        IN  dt_out = IF Q = {} THEN "body" ELSE potential_selectors[Min(Q)]

\* C9 amended: the selector returned is the first candidate whose lookup
\* does not raise and whose first matching element has a text longer than
\* the threshold, "body" when there is none.
AmendC9 ==
    pc = "detect_done" =>
        LET Q == {k \in DOMAIN potential_selectors :
                    /\ ~dt_in[k].raises
                    /\ dt_in[k].elements # <<>>
                    /\ dt_in[k].elements[1].ok
                    /\ dt_in[k].elements[1].len > Threshold}
        IN  dt_out = IF Q = {} THEN "body" ELSE potential_selectors[Min(Q)]

WitC9 ==
    /\ pc = "detect_done"
    /\ dt_in[1].raises
    /\ dt_in[2] = NoMatch
    /\ dt_in[3].elements # <<>> /\ dt_in[3].elements[1].len > Threshold
    /\ dt_out = "div.novelcontent"

\* The lines of a cleaned text: the pieces between the blank lines that join them.
OutputLines(out) ==
    IF out = <<>> THEN {}
    ELSE LET ls == SplitLines(out)
         IN  {ls[k] : k \in {j \in DOMAIN ls : j % 2 = 1}}
HasMarker(line) ==
    \E k \in DOMAIN ad_keywords : Contains(Lower(line), ad_keywords[k])
PunctuationOnly(line) ==
    line # <<>> /\ \A k \in DOMAIN line : ~IsWord(line[k]) /\ ~IsSpace(line[k])
\* The fragment holds only script/style/ins/noscript elements, hyperlinks and
\* text whose every line has a noise marker.
OnlyNoise(fragment) ==
    \A k \in DOMAIN fragment :
        \/ fragment[k].tag \in {"script", "style", "ins", "noscript", "a"}
        \/ /\ fragment[k].tag = "#text"
           /\ \A j \in DOMAIN SplitLines(fragment[k].text) :
                 HasMarker(SplitLines(fragment[k].text)[j])

\* C10: clean_text returns the empty string for a fragment of only noise, and
\* no line of its output is empty, punctuation-only, or holds a noise marker.
OrigC10 ==
    pc = "clean_done" =>
        /\ OnlyNoise(cl_in) => cl_out = <<>>
        /\ \A line \in OutputLines(cl_out) :
              line # <<>> /\ ~PunctuationOnly(line) /\ ~HasMarker(line)

====
